---------------------------- MODULE Spec2Model ----------------------------
(***************************************************************************)
(* A model of the httplog package: the logger (httplog.go) and the logging *)
(* middleware (loggingHandler).  Go strings and byte slices are sequences  *)
(* of one-character strings, so that the regular expressions, the          *)
(* replacer, the line scanner and strings.Count work on characters.        *)
(***************************************************************************)
EXTENDS Integers, Sequences, FiniteSets, TLC

VARIABLES
    l,        \* logger id -> httpLogger fields (ip, method, path, ua, params, status, reqRaw, extras)
    w,        \* logger id -> the io.Writer's stream: the sequence of Write calls' arguments
    now,      \* the wall clock, in seconds after ClockBase
    nOps,     \* number of Logger method calls made so far by the standalone caller
    lastOp,   \* history: the last two Logger methods called, most recent first
    lastReq,  \* history: the request of the most recent SetRequestInfo
    added,    \* history: key -> value of the most recent Add for that key
    req,      \* the request given to the extraction run
    pc,       \* position of the extraction run
    mode,     \* middleware deployment: "shared", "serial" or "own"
    gs,       \* goroutine id -> the state of its loggingHandler.ServeHTTP call
    mu        \* holder of the callers' external lock (0: free), used in mode "serial"

vars == <<l, w, now, nOps, lastOp, lastReq, added, req, pc, mode, gs, mu>>

-----------------------------------------------------------------------------
(* Bounds of the model *)

MaxOps == 4
MaxClock == 1
MaxHeaderWrites == 2
MaxBodyWrites == 1

-----------------------------------------------------------------------------
(* Strings *)

Max(S) == CHOOSE x \in S : \A y \in S : y <= x
Min(S) == CHOOSE x \in S : \A y \in S : x <= y

\* s[i:] in Go terms, for a 1-based i
From(s, i) == SubSeq(s, i, Len(s))

\* whether p occurs in s starting at (1-based) position i
HasAt(s, p, i) ==
    /\ i >= 1
    /\ i + Len(p) - 1 <= Len(s)
    /\ \A k \in 1..Len(p) : s[i + k - 1] = p[k]

\* the positions at which p occurs in s
Occurrences(s, p) == {i \in 1..Len(s) : HasAt(s, p, i)}

\* strings.Contains
Contains(s, p) == Occurrences(s, p) # {}

\* strings.Count: the number of non-overlapping occurrences of p (non-empty) in s
RECURSIVE CountFrom(_, _, _)
CountFrom(s, p, i) ==
    LET later == {j \in Occurrences(s, p) : j >= i}
    IN  IF later = {} THEN 0 ELSE 1 + CountFrom(s, p, Min(later) + Len(p))

Count(s, p) == CountFrom(s, p, 1)

\* 1-based index of the first / last occurrence of character c, 0 when absent
IndexByte(s, c) ==
    LET at == {i \in 1..Len(s) : s[i] = c} IN IF at = {} THEN 0 ELSE Min(at)

LastIndexByte(s, c) ==
    LET at == {i \in 1..Len(s) : s[i] = c} IN IF at = {} THEN 0 ELSE Max(at)

RECURSIVE Flatten(_)
Flatten(ss) == IF ss = <<>> THEN <<>> ELSE Head(ss) \o Flatten(Tail(ss))

Digit(d) == <<"0", "1", "2", "3", "4", "5", "6", "7", "8", "9">>[d + 1]

\* strconv.Itoa
RECURSIVE Itoa(_)
Itoa(n) ==
    IF n < 0 THEN <<"-">> \o Itoa(-n)
    ELSE IF n < 10 THEN <<Digit(n)>>
    ELSE Itoa(n \div 10) \o <<Digit(n % 10)>>

\* the whitespace class \s of Go's regexp package
IsSpace(c) == c \in {" ", "\t", "\n", "\f", "\r"}

-----------------------------------------------------------------------------
(* Requests, and the dump httputil.DumpRequest(r, true) makes of one *)

CRLF == <<"\r", "\n">>

\* The fields of *http.Request the package reads.  A header that is absent is
\* the empty string, which is what Header.Get returns for it; Body is the bytes
\* the body reader delivers ("" for no body), BodyErr a body reader that fails.
Request(m, uri, ua, fwd, addr, body, err) ==
    [Method |-> m, RequestURI |-> uri, Host |-> <<"h">>, UserAgent |-> ua,
     XForwardedFor |-> fwd, RemoteAddr |-> addr, Body |-> body, BodyErr |-> err]

HeaderLine(key, value) ==
    IF value = <<>> THEN <<>> ELSE key \o <<":", " ">> \o value \o CRLF

\* httputil.DumpRequest: the request line, the Host line of a request whose
\* target is not absolute, the headers sorted by key, a blank line, the body.
DumpRequest(r) ==
    LET absRequestURI ==
            \/ HasAt(r.RequestURI, <<"h", "t", "t", "p", ":", "/", "/">>, 1)
            \/ HasAt(r.RequestURI, <<"h", "t", "t", "p", "s", ":", "/", "/">>, 1)
        method == IF r.Method = <<>> THEN <<"G", "E", "T">> ELSE r.Method
    IN  method \o <<" ">> \o r.RequestURI
            \o <<" ", "H", "T", "T", "P", "/", "1", ".", "1">> \o CRLF
        \o (IF absRequestURI THEN <<>>
            ELSE <<"H", "o", "s", "t", ":", " ">> \o r.Host \o CRLF)
        \o HeaderLine(<<"U", "s", "e", "r", "-", "A", "g", "e", "n", "t">>, r.UserAgent)
        \o HeaderLine(<<"X", "-", "F", "o", "r", "w", "a", "r", "d", "e", "d", "-",
                        "F", "o", "r">>, r.XForwardedFor)
        \o CRLF
        \o r.Body

\* reqDump: the dump, or "" when DumpRequest fails (the body cannot be read)
reqDump(r) == IF r.BodyErr THEN <<>> ELSE DumpRequest(r)

\* bufio.ScanLines: the tokens are the lines, each without its end-of-line
\* marker (\n, or \r\n); a last line without a newline is a token when non-empty.
DropCR(s) ==
    IF Len(s) > 0 /\ s[Len(s)] = "\r" THEN SubSeq(s, 1, Len(s) - 1) ELSE s

RECURSIVE ScanLines(_)
ScanLines(data) ==
    IF data = <<>> THEN <<>>
    ELSE LET i == IndexByte(data, "\n")
         IN  IF i = 0 THEN <<DropCR(data)>>
             ELSE <<DropCR(SubSeq(data, 1, i - 1))>> \o ScanLines(From(data, i + 1))

-----------------------------------------------------------------------------
(* The three regular expressions of SetRequestInfo, matched as Go's regexp  *)
(* matches them: unanchored, leftmost match first, every (.+) greedy.  A    *)
(* line holds no \n, so . matches each of its characters and a match, when  *)
(* there is one, starts at the line's first character.                      *)

NoMatch == [ok |-> FALSE, g1 |-> <<>>, g2 |-> <<>>]

\* (.+)\s(.+)\sHTTP : group 1 runs to the last white space that still leaves
\* a non-empty group 2 before a white space followed by HTTP; group 2 then
\* runs to the last such white space.
pathRegexp(line) ==
    LET K == {k \in 1..Len(line) :
                 IsSpace(line[k]) /\ HasAt(line, <<"H", "T", "T", "P">>, k + 1)}
        J == {j \in 2..Len(line) :
                 IsSpace(line[j]) /\ \E k \in K : k >= j + 2}
    IN  IF J = {} THEN NoMatch
        ELSE [ok |-> TRUE,
              g1 |-> SubSeq(line, 1, Max(J) - 1),
              g2 |-> SubSeq(line, Max(J) + 1, Max(K) - 1)]

\* User-Agent:\s(.+) : the first "User-Agent:" followed by a white space and
\* at least one more character; the group is the rest of the line.
userAgentRegexp(line) ==
    LET key == <<"U", "s", "e", "r", "-", "A", "g", "e", "n", "t", ":">>
        at == {i \in Occurrences(line, key) :
                  /\ i + Len(key) + 1 <= Len(line)
                  /\ IsSpace(line[i + Len(key)])}
    IN  IF at = {} THEN NoMatch
        ELSE [ok |-> TRUE, g1 |-> From(line, Min(at) + Len(key) + 1), g2 |-> <<>>]

\* (.+?)\?(.+), a split at the first ? instead of the last
getParamsRegexp_First(s) ==
    LET Q == {q \in 2..(Len(s) - 1) : s[q] = "?"}
    IN  IF Q = {} THEN NoMatch
        ELSE [ok |-> TRUE, g1 |-> SubSeq(s, 1, Min(Q) - 1), g2 |-> From(s, Min(Q) + 1)]

\* (.+)\?(.+) : group 1 runs to the last ? that has a character after it
\* (and one before it).
getParamsRegexp(s) ==
    LET Q == {q \in 2..(Len(s) - 1) : s[q] = "?"}
    IN  IF Q = {} THEN NoMatch
        ELSE [ok |-> TRUE, g1 |-> SubSeq(s, 1, Max(Q) - 1), g2 |-> From(s, Max(Q) + 1)]

-----------------------------------------------------------------------------
(* The request-info extraction *)

\* strings.NewReplacer("=", "\": \"", "&", "\", \"").Replace
ReplaceByte(c) ==
    IF c = "=" THEN <<"\"", ":", " ", "\"">>
    ELSE IF c = "&" THEN <<"\"", ",", " ", "\"">>
    ELSE <<c>>

Replace(s) == Flatten([i \in 1..Len(s) |-> ReplaceByte(s[i])])

toJSON(s) == <<"{", "\"">> \o Replace(s) \o <<"\"", "}">>

\* net.SplitHostPort: [ok, host]; ok is FALSE when it returns an error
SplitHostPort(hostport) ==
    LET i == LastIndexByte(hostport, ":")
        end == IndexByte(hostport, "]")
        failed == [ok |-> FALSE, host |-> <<>>]
    IN  IF i = 0 THEN failed
        ELSE IF hostport[1] = "["
        THEN IF end = 0 THEN failed
             ELSE IF end + 1 # i THEN failed
             ELSE IF IndexByte(From(hostport, 2), "[") # 0 THEN failed
             ELSE IF IndexByte(From(hostport, end + 1), "]") # 0 THEN failed
             ELSE [ok |-> TRUE, host |-> SubSeq(hostport, 2, end - 1)]
        ELSE IF IndexByte(SubSeq(hostport, 1, i - 1), ":") # 0 THEN failed
             ELSE IF IndexByte(hostport, "[") # 0 THEN failed
             ELSE IF IndexByte(hostport, "]") # 0 THEN failed
             ELSE [ok |-> TRUE, host |-> SubSeq(hostport, 1, i - 1)]

\* getIP with the X-Forwarded-For header consulted only when the peer address
\* cannot be split
getIP_PeerFirst(r) ==
    LET hp == SplitHostPort(r.RemoteAddr)
    IN  IF hp.ok THEN hp.host
        ELSE IF Len(r.XForwardedFor) > 0 THEN r.XForwardedFor
        ELSE r.RemoteAddr

getIP(r) ==
    IF Len(r.XForwardedFor) > 0 THEN r.XForwardedFor
    ELSE LET hp == SplitHostPort(r.RemoteAddr)
         IN  IF hp.ok THEN hp.host ELSE r.RemoteAddr

setPath(lg, line) ==
    LET m == pathRegexp(line)
        q == getParamsRegexp(m.g2)
    IN  IF ~m.ok THEN lg
        ELSE IF q.ok
             THEN [lg EXCEPT !.method = m.g1, !.path = q.g1, !.params = toJSON(q.g2)]
             ELSE [lg EXCEPT !.method = m.g1, !.path = m.g2]

setUa(lg, h) ==
    LET m == userAgentRegexp(h)
    IN  IF m.ok THEN [lg EXCEPT !.ua = m.g1] ELSE lg

\* the scanner loop of SetRequestInfo over the lines still to scan
RECURSIVE ScanLoop(_, _)
ScanLoop(lg, lines) ==
    IF lines = <<>> THEN lg
    ELSE ScanLoop(setUa(setPath(lg, Head(lines)), Head(lines)), Tail(lines))

\* the logger New returns
New ==
    [ip |-> <<>>, method |-> <<>>, path |-> <<>>, ua |-> <<>>, params |-> <<>>,
     status |-> 0, reqRaw |-> <<>>, extras |-> <<>>]

\* SetRequestInfo without the fallback to the last line
SetRequestInfo_NoFallback(lg, r) ==
    ScanLoop([lg EXCEPT !.ip = getIP(r), !.reqRaw = reqDump(r)], ScanLines(reqDump(r)))

\* httpLogger.SetRequestInfo: the logger after the call
SetRequestInfo(lg, r) ==
    LET raw == reqDump(r)
        lines == ScanLines(raw)
        line == IF lines = <<>> THEN <<>> ELSE lines[Len(lines)]
        scanned == ScanLoop([lg EXCEPT !.ip = getIP(r), !.reqRaw = raw], lines)
    IN  IF Len(scanned.params) = 0 THEN [scanned EXCEPT !.params = line]
        ELSE scanned

-----------------------------------------------------------------------------
(* The log entry *)

\* An extras value (interface{}): an int or a string
IntValue(n) == [kind |-> "int", n |-> n, s |-> <<>>]
StringValue(s) == [kind |-> "string", n |-> 0, s |-> s]

\* fmt.Sprintf("%v", v)
Sprintf(v) == IF v.kind = "int" THEN Itoa(v.n) ELSE v.s

\* time.Now().UTC().Format("2006-01-02T15:04:05MST") for the instant t seconds
\* after 2017-07-08T17:08:00 UTC (t < 60)
FormatTime(t) ==
    <<"2", "0", "1", "7", "-", "0", "7", "-", "0", "8", "T", "1", "7", ":", "0", "8", ":">>
        \o <<Digit(t \div 10), Digit(t % 10)>> \o <<"U", "T", "C">>

\* The orders in which a range over a map with the keys S may visit them: Go
\* leaves the iteration order of a map unspecified, and varies it between loops.
Orders(S) ==
    {o \in [1..Cardinality(S) -> S] : \A i, j \in DOMAIN o : o[i] = o[j] => i = j}

\* Add that leaves a key that is already there alone
Add_KeepsFirst(lg, key, value) ==
    IF key \in DOMAIN lg.extras THEN lg
    ELSE [lg EXCEPT !.extras = [k \in DOMAIN lg.extras \cup {key} |->
                                   IF k = key THEN value ELSE lg.extras[k]]]

\* httpLogger.Add
Add(lg, key, value) ==
    [lg EXCEPT !.extras =
        [k \in DOMAIN lg.extras \cup {key} |-> IF k = key THEN value ELSE lg.extras[k]]]

\* httpLogger.SetStatus
SetStatus(lg, s) == [lg EXCEPT !.status = s]

\* httpLogger.buildLogEntry at instant t, the range over extras visiting the keys in order
buildLogEntry(lg, t, order) ==
    <<"l", "e", "v", "e", "l", "=", "I">>
    \o <<" ", "t", "i", "m", "e", "=">> \o FormatTime(t)
    \o <<" ", "i", "p", "=">> \o lg.ip
    \o <<" ", "m", "e", "t", "h", "o", "d", "=">> \o lg.method
    \o <<" ", "p", "a", "t", "h", "=">> \o lg.path
    \o <<" ", "u", "a", "=">> \o lg.ua
    \o <<" ", "s", "t", "a", "t", "u", "s", "=">> \o Itoa(lg.status)
    \o <<" ", "p", "a", "r", "a", "m", "s", "=">> \o lg.params
    \o Flatten([i \in DOMAIN order |->
                   <<" ">> \o order[i] \o <<"=">> \o Sprintf(lg.extras[order[i]])])

\* testWriter.Write: the stream after the write of p
Write(stream, p) == Append(stream, p)

\* Log without the terminating newline
Log_NoNewline(lg, stream, t, order) == Write(stream, buildLogEntry(lg, t, order))

\* httpLogger.Log: the stream after the call
Log(lg, stream, t, order) == Write(stream, buildLogEntry(lg, t, order) \o <<"\n">>)

-----------------------------------------------------------------------------
(* Standalone use: one caller calls the methods of one logger, in any order *)

GET == <<"G", "E", "T">>
POST == <<"P", "O", "S", "T">>

\* GET /a?b=c with a User-Agent and an X-Forwarded-For header, and
\* POST /r with the body {} and neither header
CallerRequests ==
    { Request(GET, <<"/", "a", "?", "b", "=", "c">>, <<"u", "a">>, <<"9", ".", "9">>,
              <<"1", ".", "2", ":", "8", "0">>, <<>>, FALSE),
      Request(POST, <<"/", "r">>, <<>>, <<>>,
              <<"1", ".", "2", ":", "8", "0">>, <<"{", "}">>, FALSE) }

CallerStatuses == {200, 404}

CallerKeys == {<<"u", "i", "d">>, <<"i", "p">>}

CallerValues == {IntValue(1234), StringValue(<<"s", "h", "h", "h", "!">>)}

NoRequest == Request(<<>>, <<>>, <<>>, <<>>, <<>>, <<>>, FALSE)

Init ==
    /\ l = [i \in {1} |-> New]
    /\ w = [i \in {1} |-> <<>>]
    /\ now = 0
    /\ nOps = 0
    /\ lastOp = "New"
    /\ lastReq = NoRequest
    /\ added = <<>>
    /\ req = NoRequest
    /\ pc = "standalone"
    /\ mode = "standalone"
    /\ gs = <<>>
    /\ mu = 0

CallSetRequestInfo ==
    \E r \in CallerRequests :
        /\ nOps < MaxOps
        /\ l' = [l EXCEPT ![1] = SetRequestInfo(l[1], r)]
        /\ nOps' = nOps + 1
        /\ lastOp' = "SetRequestInfo"
        /\ lastReq' = r
        /\ UNCHANGED <<w, now, added, req, pc, mode, gs, mu>>

CallSetStatus ==
    \E s \in CallerStatuses :
        /\ nOps < MaxOps
        /\ l' = [l EXCEPT ![1] = SetStatus(l[1], s)]
        /\ nOps' = nOps + 1
        /\ lastOp' = "SetStatus"
        /\ UNCHANGED <<w, now, lastReq, added, req, pc, mode, gs, mu>>

CallAdd ==
    \E key \in CallerKeys, value \in CallerValues :
        /\ nOps < MaxOps
        /\ l' = [l EXCEPT ![1] = Add(l[1], key, value)]
        /\ nOps' = nOps + 1
        /\ lastOp' = "Add"
        /\ added' = [k \in DOMAIN added \cup {key} |-> IF k = key THEN value ELSE added[k]]
        /\ UNCHANGED <<w, now, lastReq, req, pc, mode, gs, mu>>

\* a Log call that empties the extras once the line is written
CallLog_ClearsExtras ==
    \E t \in now..MaxClock, order \in Orders(DOMAIN l[1].extras) :
        /\ nOps < MaxOps
        /\ now' = t
        /\ w' = [w EXCEPT ![1] = Log(l[1], w[1], t, order)]
        /\ l' = [l EXCEPT ![1].extras = <<>>]
        /\ nOps' = nOps + 1
        /\ lastOp' = "Log"
        /\ UNCHANGED <<lastReq, added, req, pc, mode, gs, mu>>

\* Log reads the clock, which has not gone back since the last reading
CallLog ==
    \E t \in now..MaxClock, order \in Orders(DOMAIN l[1].extras) :
        /\ nOps < MaxOps
        /\ now' = t
        /\ w' = [w EXCEPT ![1] = Log(l[1], w[1], t, order)]
        /\ nOps' = nOps + 1
        /\ lastOp' = "Log"
        /\ UNCHANGED <<l, lastReq, added, req, pc, mode, gs, mu>>

Next == CallSetRequestInfo \/ CallSetStatus \/ CallAdd \/ CallLog

Spec == Init /\ [][Next]_vars

-----------------------------------------------------------------------------
(* The extraction alone: SetRequestInfo(r) on a logger fresh from New, for   *)
(* every request r built from the parts below                                *)

Methods == {GET, POST}

\* /a   /a?b=c&d=e   /a?   /a?b?c   https://h/r
Targets ==
    { <<"/", "a">>,
      <<"/", "a", "?", "b", "=", "c", "&", "d", "=", "e">>,
      <<"/", "a", "?">>,
      <<"/", "a", "?", "b", "?", "c">>,
      <<"h", "t", "t", "p", "s", ":", "/", "/", "h", "/", "r">> }

\* no User-Agent header, "ua", and "q r?s HTTP"
UserAgents ==
    { <<>>, <<"u", "a">>, <<"q", " ", "r", "?", "s", " ", "H", "T", "T", "P">> }

Forwards == { <<>>, <<"9", ".", "9">> }

\* 1.2:80   [::1]:80   1.2   ::1:80
RemoteAddrs ==
    { <<"1", ".", "2", ":", "8", "0">>,
      <<"[", ":", ":", "1", "]", ":", "8", "0">>,
      <<"1", ".", "2">>,
      <<":", ":", "1", ":", "8", "0">> }

\* no body, {} and the two lines a, b
Bodies == { <<>>, <<"{", "}">>, <<"a", "\n", "b">> }

AllRequests ==
    {Request(m, uri, ua, fwd, addr, body, FALSE) :
        m \in Methods, uri \in Targets, ua \in UserAgents, fwd \in Forwards,
        addr \in RemoteAddrs, body \in Bodies}
    \cup
    {Request(m, uri, ua, fwd, addr, <<>>, TRUE) :
        m \in Methods, uri \in Targets, ua \in UserAgents, fwd \in Forwards,
        addr \in RemoteAddrs}

InitExtract ==
    /\ l = [i \in {1} |-> New]
    /\ w = [i \in {1} |-> <<>>]
    /\ now = 0
    /\ nOps = 0
    /\ lastOp = "New"
    /\ lastReq = NoRequest
    /\ added = <<>>
    /\ req \in AllRequests
    /\ pc = "start"
    /\ mode = "extract"
    /\ gs = <<>>
    /\ mu = 0

Extract ==
    /\ pc = "start"
    /\ l' = [l EXCEPT ![1] = SetRequestInfo(l[1], req)]
    /\ lastReq' = req
    /\ pc' = "done"
    /\ UNCHANGED <<w, now, nOps, lastOp, added, req, mode, gs, mu>>

NextExtract == Extract

SpecExtract == InitExtract /\ [][NextExtract]_vars

-----------------------------------------------------------------------------
(* Properties of the extraction *)

\* the query-to-JSON rule, character by character
RECURSIVE QueryText(_)
QueryText(s) ==
    IF s = <<>> THEN <<>>
    ELSE (CASE Head(s) = "=" -> <<"\"", ":", " ", "\"">>
            [] Head(s) = "&" -> <<"\"", ",", " ", "\"">>
            [] OTHER -> <<Head(s)>>) \o QueryText(Tail(s))

QueryJSON(s) == <<"{", "\"">> \o QueryText(s) \o <<"\"", "}">>

\* the dump of r was produced and its request line is its only line that
\* matches the request-line pattern
PlainDump(r) ==
    /\ ~r.BodyErr
    /\ LET lines == ScanLines(reqDump(r))
       IN  \A i \in 2..Len(lines) : ~pathRegexp(lines[i]).ok

\* the positions of the ?s of target s that have a character before and after them
InnerMarks(s) == {q \in 2..(Len(s) - 1) : s[q] = "?"}

LastLine(data) ==
    LET lines == ScanLines(data) IN IF lines = <<>> THEN <<>> ELSE lines[Len(lines)]

C8_ForwardedOrPeer ==
    pc = "done" =>
        LET a == req.RemoteAddr
            i == LastIndexByte(a, ":")
            ip == l[1].ip
        IN  IF req.XForwardedFor # <<>> THEN ip = req.XForwardedFor
            ELSE /\ \/ ip = a
                    \/ i # 0 /\ a = ip \o <<":">> \o From(a, i + 1)
                    \/ i # 0 /\ a = <<"[">> \o ip \o <<"]", ":">> \o From(a, i + 1)
                 /\ i = 0 => ip = a
                 /\ (Count(a, <<":">>) = 1 /\ IndexByte(a, "[") = 0 /\ IndexByte(a, "]") = 0)
                        => ip = SubSeq(a, 1, i - 1)

C8_Witness ==
    /\ pc = "done"
    /\ req.XForwardedFor = <<"9", ".", "9">>
    /\ req.RemoteAddr = <<"1", ".", "2", ":", "8", "0">>
    /\ l[1].ip = <<"9", ".", "9">>

C8_WitnessPeer ==
    /\ pc = "done"
    /\ req.XForwardedFor = <<>>
    /\ req.RemoteAddr = <<"[", ":", ":", "1", "]", ":", "8", "0">>
    /\ l[1].ip = <<":", ":", "1">>

-----------------------------------------------------------------------------
(* Properties of the standalone logger *)

Markers ==
    { <<"l", "e", "v", "e", "l", "=">>, <<"t", "i", "m", "e", "=">>, <<"i", "p", "=">>,
      <<"m", "e", "t", "h", "o", "d", "=">>, <<"p", "a", "t", "h", "=">>, <<"u", "a", "=">>,
      <<"s", "t", "a", "t", "u", "s", "=">>, <<"p", "a", "r", "a", "m", "s", "=">> }

\* the pair an extra is to appear as: SP key = value, an int in decimal and a
\* string verbatim
ExtraText(key, value) ==
    <<" ">> \o key \o <<"=">> \o (IF value.kind = "int" THEN Itoa(value.n) ELSE value.s)

\* the pairs of the extras m, one after the other in the order o of its keys
ExtrasText(m, o) == Flatten([i \in DOMAIN o |-> ExtraText(o[i], m[o[i]])])

\* exactly one of each marker and one newline, the last character
WellFormed(line) ==
    /\ \A m \in Markers : Count(line, m) = 1
    /\ Count(line, <<"\n">>) = 1
    /\ line[Len(line)] = "\n"

\* no field value and no extras pair of lg holds a marker or a newline
Clean(lg) ==
    \A m \in Markers \cup {<<"\n">>} :
        /\ \A f \in {lg.ip, lg.method, lg.path, lg.ua, lg.params} : ~Contains(f, m)
        /\ \A k \in DOMAIN lg.extras : ~Contains(ExtraText(k, lg.extras[k]), m)

LastWrite(stream) == stream[Len(stream)]

\* a step that is a call of Log by the standalone caller
LogStep == nOps' = nOps + 1 /\ lastOp' = "Log"

AppendsOne(old, new) == Len(new) = Len(old) + 1 /\ SubSeq(new, 1, Len(old)) = old

RequestFields(lg) == <<lg.ip, lg.method, lg.path, lg.ua, lg.params>>

\* C1 as stated: after SetRequestInfo(r), whatever was called before, the five
\* request fields are those a logger fresh from New holds after SetRequestInfo(r).
C1_AsStated ==
    lastOp = "SetRequestInfo" =>
        RequestFields(l[1]) = RequestFields(SetRequestInfo(New, lastReq))

\* C4 as stated: every Log call appends exactly one write to the stream (and
\* no other call writes), and the line written holds each of the eight
\* markers exactly once and one newline, its last character, whatever the
\* logger's state.
C4_AsStated ==
    [][ nOps' # nOps =>
          IF lastOp' = "Log"
          THEN AppendsOne(w[1], w'[1]) /\ WellFormed(LastWrite(w'[1]))
          ELSE w' = w ]_vars

\* C4, amended: every Log call appends exactly one write to the stream (and no
\* other call writes); the line ends in a newline, and it holds each of the
\* eight markers exactly once and no other newline PROVIDED no field value
\* (ip, method, path, ua, params) and no extras pair key=value itself holds a
\* marker or a newline.
C4_OneLinePerLog ==
    [][ nOps' # nOps =>
          IF lastOp' = "Log"
          THEN /\ AppendsOne(w[1], w'[1])
               /\ LastWrite(w'[1])[Len(LastWrite(w'[1]))] = "\n"
               /\ Clean(l[1]) => WellFormed(LastWrite(w'[1]))
          ELSE w' = w ]_vars

C4_Witness ==
    /\ lastOp = "Log"
    /\ Len(w[1]) = 2
    /\ Clean(l[1])
    /\ l[1].path # <<>>
    /\ DOMAIN l[1].extras # {}
    /\ WellFormed(w[1][1]) /\ WellFormed(w[1][2])

\* the characters of a line that hold the value of time=
TimeSpan == 14..35

SameButTime(a, b) ==
    /\ Len(a) = Len(b)
    /\ \A i \in 1..Len(a) : i \notin TimeSpan => a[i] = b[i]

\* a and b are the same up to the value of time= and the order of the extras
\* pairs, which are those of the extras m
SameButTimeAndOrder(a, b, m) ==
    \E o1, o2 \in Orders(DOMAIN m) :
        LET h == Len(a) - Len(ExtrasText(m, o1)) - 1
        IN  /\ Len(a) = Len(b)
            /\ h >= 35
            /\ From(a, h + 1) = ExtrasText(m, o1) \o <<"\n">>
            /\ From(b, h + 1) = ExtrasText(m, o2) \o <<"\n">>
            /\ \A i \in 1..h : i \notin TimeSpan => a[i] = b[i]

\* C5 as stated: Log changes no logger field, and a Log call right after a
\* Log call writes the line the first one wrote, but for the value of time=.
C5_AsStated ==
    [][ LogStep =>
          /\ l' = l
          /\ lastOp = "Log" => SameButTime(LastWrite(w[1]), LastWrite(w'[1])) ]_vars

\* C5, amended: Log changes no logger field, and a Log call right after a Log
\* call writes the line the first one wrote but for the value of time= AND
\* THE ORDER OF THE EXTRAS PAIRS (with fewer than two extras: but for time=).
C5_SameLineTwice ==
    [][ LogStep =>
          /\ l' = l
          /\ lastOp = "Log" =>
                /\ SameButTimeAndOrder(LastWrite(w[1]), LastWrite(w'[1]), l[1].extras)
                /\ Cardinality(DOMAIN l[1].extras) < 2 =>
                      SameButTime(LastWrite(w[1]), LastWrite(w'[1])) ]_vars

\* two Log calls in a row with two extras, visited in different orders
C5_Witness ==
    /\ lastOp = "Log"
    /\ nOps = 4
    /\ Len(w[1]) = 2
    /\ Cardinality(DOMAIN l[1].extras) = 2
    /\ Len(w[1][1]) = Len(w[1][2])
    /\ ~SameButTime(w[1][1], w[1][2])
    /\ now = 1

\* C6: the extras are exactly what Add put there, each key with the value of
\* its latest Add, whatever else was called; and the line a Log call writes
\* ends, after params=<params>, with one pair for each of these keys, in some
\* order, and nothing else but the newline.
C6_ExtrasKept ==
    /\ l[1].extras = added
    /\ lastOp = "Log" =>
          \E o \in Orders(DOMAIN added) :
              LET tail == <<" ", "p", "a", "r", "a", "m", "s", "=">> \o l[1].params
                              \o ExtrasText(added, o) \o <<"\n">>
                  line == LastWrite(w[1])
              IN  HasAt(line, tail, Len(line) - Len(tail) + 1)

\* uid was added twice: the first line shows the first value, the second the second
C6_Witness ==
    /\ lastOp = "Log"
    /\ Len(w[1]) = 2
    /\ Contains(w[1][1], <<" ", "u", "i", "d", "=", "1", "2", "3", "4", "\n">>)
    /\ Contains(w[1][2], <<" ", "u", "i", "d", "=", "s", "h", "h", "h", "!", "\n">>)

-----------------------------------------------------------------------------
(* The middleware: two requests arrive, each served by loggingHandler.ServeHTTP *)
(* on a goroutine of its own.  In mode "shared" the two calls use one logger    *)
(* with nothing to keep their steps apart; in mode "serial" they use one logger *)
(* and the caller's lock lets one ServeHTTP call run at a time; in mode "own"   *)
(* each request has a logger of its own.                                        *)

Goroutines == {1, 2}

Modes == {"shared", "serial", "own"}

\* the status codes the wrapped handler passes to WriteHeader
HandlerStatuses == {200, 500}

\* the logger (and stream) the handler serving goroutine g is bound to
LoggerOf(g) == IF mode = "own" THEN g ELSE 1

\* http.ResponseWriter, the server's: the WriteHeader calls it received, the
\* status it sent (the first WriteHeader's, or 200 on a Write before any; 0: none
\* yet) and the number of Write calls
NewResponseWriter == [calls |-> <<>>, sent |-> 0, body |-> 0]

\* ServeHTTP of goroutine g before it starts: lrw is loggingResponseWriter.Status,
\* and headers (the WriteHeader calls the wrapped handler made) and logs (the
\* Log calls of this ServeHTTP, each with the line it wrote) are history
Arrived(r) ==
    [req |-> r, pc |-> "start", lrw |-> 0, rw |-> NewResponseWriter,
     headers |-> <<>>, logs |-> <<>>]

InitMW ==
    /\ mode \in Modes
    /\ gs \in [Goroutines -> {Arrived(r) : r \in CallerRequests}]
    /\ l = [i \in Goroutines |-> New]
    /\ w = [i \in Goroutines |-> <<>>]
    /\ now = 0
    /\ nOps = 0
    /\ lastOp = "New"
    /\ lastReq = NoRequest
    /\ added = <<>>
    /\ req = NoRequest
    /\ pc = "middleware"
    /\ mu = 0

mwUnchanged == <<nOps, lastOp, added, req, pc, mode>>

\* loggingHandler.ServeHTTP up to the call of the wrapped handler
ServeHTTP_SetRequestInfo(g) ==
    /\ gs[g].pc = "start"
    /\ mode = "serial" => mu = 0
    /\ mu' = IF mode = "serial" THEN g ELSE mu
    /\ l' = [l EXCEPT ![LoggerOf(g)] = SetRequestInfo(l[LoggerOf(g)], gs[g].req)]
    /\ lastReq' = gs[g].req
    /\ gs' = [gs EXCEPT ![g].pc = "next", ![g].lrw = 0]
    /\ UNCHANGED <<w, now>>
    /\ UNCHANGED mwUnchanged

\* loggingResponseWriter.WriteHeader, called by the wrapped handler
WriteHeader(g) ==
    \E status \in HandlerStatuses :
        /\ gs[g].pc = "next"
        /\ Len(gs[g].headers) < MaxHeaderWrites
        /\ gs' = [gs EXCEPT
                    ![g].lrw = status,
                    ![g].headers = Append(@, status),
                    ![g].rw.calls = Append(@, status),
                    ![g].rw.sent = IF @ = 0 THEN status ELSE @]
        /\ UNCHANGED <<l, w, now, lastReq, mu>>
        /\ UNCHANGED mwUnchanged

\* Write, called by the wrapped handler: the embedded ResponseWriter's own
WriteBody(g) ==
    /\ gs[g].pc = "next"
    /\ gs[g].rw.body < MaxBodyWrites
    /\ gs' = [gs EXCEPT
                ![g].rw.body = @ + 1,
                ![g].rw.sent = IF @ = 0 THEN 200 ELSE @]
    /\ UNCHANGED <<l, w, now, lastReq, mu>>
    /\ UNCHANGED mwUnchanged

\* the wrapped handler returns
HandlerReturns(g) ==
    /\ gs[g].pc = "next"
    /\ gs' = [gs EXCEPT ![g].pc = "setStatus"]
    /\ UNCHANGED <<l, w, now, lastReq, mu>>
    /\ UNCHANGED mwUnchanged

\* the wrapped handler panics: ServeHTTP unwinds from the call of h.next.ServeHTTP,
\* before its defer statement is reached, and the server recovers the panic
HandlerPanics(g) ==
    /\ gs[g].pc = "next"
    /\ gs' = [gs EXCEPT ![g].pc = "panicked"]
    /\ mu' = IF mode = "serial" THEN 0 ELSE mu
    /\ UNCHANGED <<l, w, now, lastReq>>
    /\ UNCHANGED mwUnchanged

\* h.logger.SetStatus(lrw.Status)
ServeHTTP_SetStatus(g) ==
    /\ gs[g].pc = "setStatus"
    /\ l' = [l EXCEPT ![LoggerOf(g)] = SetStatus(l[LoggerOf(g)], gs[g].lrw)]
    /\ gs' = [gs EXCEPT ![g].pc = "log"]
    /\ UNCHANGED <<w, now, lastReq, mu>>
    /\ UNCHANGED mwUnchanged

\* defer h.logger.Log(), the last statement: Log runs as ServeHTTP returns
ServeHTTP_Log(g) ==
    \E t \in now..MaxClock :
        /\ gs[g].pc = "log"
        /\ now' = t
        /\ w' = [w EXCEPT ![LoggerOf(g)] = Log(l[LoggerOf(g)], w[LoggerOf(g)], t, <<>>)]
        /\ gs' = [gs EXCEPT
                    ![g].pc = "done",
                    ![g].logs = Append(@, buildLogEntry(l[LoggerOf(g)], t, <<>>) \o <<"\n">>)]
        /\ mu' = IF mode = "serial" THEN 0 ELSE mu
        /\ UNCHANGED <<l, lastReq>>
        /\ UNCHANGED mwUnchanged

NextMW ==
    \E g \in Goroutines :
        \/ ServeHTTP_SetRequestInfo(g)
        \/ WriteHeader(g)
        \/ WriteBody(g)
        \/ HandlerReturns(g)
        \/ HandlerPanics(g)
        \/ ServeHTTP_SetStatus(g)
        \/ ServeHTTP_Log(g)

SpecMW == InitMW /\ [][NextMW]_vars

-----------------------------------------------------------------------------
(* Properties of the middleware *)

Finished(g) == gs[g].pc \in {"done", "panicked"}

\* C2 as stated: a request that has been served, the wrapped handler having
\* returned or panicked, had Log called for it exactly once; and no Log call
\* is made before the wrapped handler has finished, nor the wrapped handler
\* invoked before SetRequestInfo.
C2_AsStated ==
    \A g \in Goroutines :
        /\ Finished(g) => Len(gs[g].logs) = 1
        /\ ~Finished(g) => Len(gs[g].logs) = 0
        /\ gs[g].pc = "start" => gs[g].headers = <<>>

\* the status the line logged for a request is to show: that of the first
\* WriteHeader call, 0 without one
FirstStatus(g) == IF gs[g].headers = <<>> THEN 0 ELSE gs[g].headers[1]

StatusField(n) ==
    <<" ", "s", "t", "a", "t", "u", "s", "=">> \o Itoa(n)
        \o <<" ", "p", "a", "r", "a", "m", "s", "=">>

\* C3 as stated, with one request at a time on a logger: the line logged for a
\* request shows the status of the FIRST WriteHeader call of the wrapped
\* handler, 0 when it made none; and the real response writer received every
\* WriteHeader call with its status.
C3_AsStated ==
    \A g \in Goroutines :
        /\ gs[g].rw.calls = gs[g].headers
        /\ (mode # "shared" /\ gs[g].pc = "done") =>
               Contains(gs[g].logs[1], StatusField(FirstStatus(g)))

\* the line that shows the request and the status of goroutine g's ServeHTTP
\* and nothing of another request, written at instant t
LineOf(g, t) ==
    buildLogEntry(SetStatus(SetRequestInfo(New, gs[g].req), gs[g].lrw), t, <<>>) \o <<"\n">>

\* C10 as stated, its second half: with a logger per request, or with the
\* steps of the requests on a shared logger kept from interleaving, every line
\* written shows the request fields and the status of one and the same request.
\* (Stated for the runs in which no wrapped handler panics.)
C10_AsStated ==
    (mode # "shared" /\ \A g \in Goroutines : gs[g].pc # "panicked") =>
        \A g \in Goroutines :
            gs[g].pc = "done" => \E t \in 0..MaxClock : gs[g].logs[1] = LineOf(g, t)

\* C10, its first half: on a shared logger without synchronization a line is
\* written that shows the request fields of one request and the status of the other
C10_MixedLine ==
    /\ mode = "shared"
    /\ gs[1].pc = "done" /\ gs[2].pc = "setStatus"
    /\ gs[1].req # gs[2].req
    /\ gs[1].lrw = 200 /\ gs[2].lrw = 500
    /\ Contains(gs[1].logs[1], <<" ", "p", "a", "t", "h", "=", "/", "r", " ">>)
    /\ gs[2].req.RequestURI = <<"/", "r">>
    /\ Contains(gs[1].logs[1], StatusField(200))

=============================================================================
